---- MODULE Spec2Model ----
(***************************************************************************)
(* VideoSplitter: one run of the background pipeline                       *)
(*   probe -> make_plan -> copy_split -> reencode_oversize                 *)
(* driven by the GUI thread (start, cancel, event polling), together with  *)
(* the external ffmpeg process that run_command supervises.                *)
(***************************************************************************)
EXTENDS Integers, Sequences, FiniteSets, TLC

\* ---------------------------------------------------------------- bounds
\* Largest number of segments the segmenter writes in a run.
NumParts == 2
\* Largest number of output lines one external process writes.
MaxLines == 1
\* Largest number of segments in a direct call of copy_split's listing.
MaxSegments == 101

\* The byte limit of a part, max_bytes = gb_to_bytes(max_gb), in model units.
MaxBytes == 2

Parts == 1..NumParts
\* Sizes of the segments: below the limit, exactly the limit, above the limit.
Sizes == (MaxBytes - 1)..(MaxBytes + 1)
\* Sizes of an encoder's output: within the limit (exactly), above the limit.
EncSizes == MaxBytes..(MaxBytes + 1)
\* The CRF ladder of reencode_oversize.
CrfLadder == <<23, 26, 28>>

\* A file on disk: which encode wrote it (enc: "orig" for the segmenter,
\* "bitrate", "crf" with its CRF value) and its size; NoFile when the path is absent.
NoFile == [enc |-> "none", crf |-> 0, size |-> 0]
File(e, q, s) == [enc |-> e, crf |-> q, size |-> s]
Exists(f) == f.enc # "none"

NoProc == [st |-> "none", rc |-> 0, pipe |-> 0, left |-> 0, term |-> FALSE, killed |-> FALSE]

VARIABLES
  is_running,    \* GUI: VideoSplitterApp.is_running
  cancel_event,  \* threading.Event shared by GUI and worker
  event_queue,   \* queue.Queue from worker to GUI: the terminal and done events
                 \* (progress events are recorded in progress)
  pc,            \* position of the worker thread
  rpc,           \* position inside run_command (streaming mode)
  exc,           \* exception propagating out of the pipeline steps
  proc,          \* the external process run_command supervises
  part,          \* output directory: the file at each part path
  tmp,           \* output directory: the file at each part's .tmp.mp4 path
  meta,          \* metadata probe() returned for the input
  files_list,    \* reencode_oversize: files_list (part indices)
  index,         \* reencode_oversize: loop index (1-based)
  final_files,   \* reencode_oversize: final_files
  rung,          \* reencode_oversize: position in the CRF ladder
  enf,           \* state of the reencode_oversize call
  progress,      \* history: progress_callback invocations <<current, total>>
  launches,      \* history: the kinds of external process started, and whether
                 \* the cancellation flag was set at their start
  entry_part,    \* history: part files when reencode_oversize was entered
  resolved,      \* history: the file of each part when its processing ended
  branch,        \* history: how the processing of the last part ended ("none"
                 \* while a part is in progress)
  oversize,      \* history: how many encodes of that part came out too large
  cancel_at,     \* history: when the flag was set: by an earlier run, while the
                 \* segmenter was running, inside reencode_oversize, after the
                 \* terminal event, or else
  terminal,      \* history: the terminal events put on the queue
  emitted,       \* history: the types of the terminal and done events put on the
                 \* queue, in the order of the puts
  audio_out,     \* extract_audio: the file at output_path
  audio_tmp,     \* extract_audio: the file at output_path's .tmp.mp3 path
  lib_result,    \* how a direct call of extract_audio / split_audio_file ended
  call,          \* a direct call of a function: its name and its arguments
  ret,           \* what that call returned or raised
  base_name      \* input_path.stem of the run, as character codes

vars == <<is_running, cancel_event, event_queue, pc, rpc, exc, proc, part, tmp,
          meta, files_list, index, final_files, rung, enf, progress, launches,
          entry_part, resolved, branch, oversize, cancel_at, terminal, emitted,
          audio_out, audio_tmp, lib_result, call, ret, base_name>>

enf_vars == <<files_list, index, final_files, rung, enf, progress, entry_part, resolved,
              branch, oversize>>
hist_vars == <<cancel_at, terminal, emitted>>
call_vars == <<call, ret, base_name>>
lib_vars == <<audio_out, audio_tmp, lib_result, call_vars>>
\* The variables of the application and of its worker, but for pc.
run_vars == <<is_running, cancel_event, event_queue, rpc, exc, proc, part, tmp, meta, launches>>

\* No direct call, and no result yet.
NoCall == [fn |-> "none"]
NoRet == [kind |-> "none"]

\* The state before any step has run, but for the worker's position, the
\* cancellation flag, the input's name and the part files of the output directory.
InitRun ==
  /\ is_running = FALSE
  /\ event_queue = <<>>
  /\ rpc = "none"
  /\ exc = "none"
  /\ proc = NoProc
  /\ tmp = [i \in Parts |-> NoFile]
  /\ meta = [duration |-> 0, size_bytes |-> 0]
  /\ files_list = <<>>
  /\ index = 0
  /\ final_files = <<>>
  /\ rung = 0
  /\ enf = "notcalled"
  /\ progress = <<>>
  /\ launches = {}
  /\ entry_part = [i \in Parts |-> NoFile]
  /\ resolved = [i \in Parts |-> NoFile]
  /\ branch = "none"
  /\ oversize = 0
  /\ terminal = <<>>
  /\ emitted = <<>>
  /\ audio_out = NoFile
  /\ lib_result = "none"
  /\ ret = NoRet

\* That state with an empty output directory and no earlier run.
InitCommon ==
  /\ part = [i \in Parts |-> NoFile]
  /\ cancel_at = "none"
  /\ base_name = <<118>>
  /\ InitRun

\* The application after construction: no run in progress, the flag unset.
Init ==
  /\ pc = "idle"
  /\ cancel_event = FALSE
  /\ audio_tmp = NoFile
  /\ call = NoCall
  /\ InitCommon

\* ------------------------------------------------------------ file names
\* Names are sequences of character codes: "*" is 42, "." 46, "0" 48, "_" 95.
\* The decimal digits of n >= 0, as character codes ("0" is 48).
RECURSIVE Digits(_)
Digits(n) == IF n < 10 THEN <<48 + n>> ELSE Digits(n \div 10) \o <<48 + (n % 10)>>

\* "%02d" of the segment muxer: at least two digits, padded with "0".
Format02d(n) == IF n < 10 THEN <<48>> \o Digits(n) ELSE Digits(n)

\* "<base>_part_NN.mp4": the path of segment n, from the pattern
\* f"{base_name}_part_%02d.mp4" of copy_split.
PartName(base, n) == base \o <<95, 112, 97, 114, 116, 95>> \o Format02d(n) \o <<46, 109, 112, 52>>

\* file_path.with_suffix(".tmp.mp4"): the last suffix of the name gives way to
\* ".tmp.mp4".
TmpName(base, n) ==
  base \o <<95, 112, 97, 114, 116, 95>> \o Format02d(n) \o <<46, 116, 109, 112, 46, 109, 112, 52>>

\* "part_*.mp4", the pattern _on_start clears, and "<base>_part_*.mp4", the
\* pattern copy_split lists.
StartPattern == <<112, 97, 114, 116, 95, 42, 46, 109, 112, 52>>
SplitPattern(base) == base \o <<95, 112, 97, 114, 116, 95, 42, 46, 109, 112, 52>>

\* Path.glob on one name: "*" matches any run of characters, every other
\* character of the pattern matches itself.
RECURSIVE GlobMatch(_, _)
GlobMatch(pattern, name) ==
  IF pattern = <<>> THEN name = <<>>
  ELSE IF Head(pattern) = 42
    THEN GlobMatch(Tail(pattern), name) \/ (name # <<>> /\ GlobMatch(pattern, Tail(name)))
  ELSE name # <<>> /\ Head(name) = Head(pattern) /\ GlobMatch(Tail(pattern), Tail(name))

\* ------------------------------------------------------------ GUI thread
\* output_dir.glob("part_*.mp4") of _on_start, each match unlinked: what is left
\* at the part paths and at the temporary paths.
ClearParts(disk) ==
  [i \in Parts |-> IF GlobMatch(StartPattern, PartName(base_name, i - 1)) THEN NoFile ELSE disk[i]]
ClearTmps(disk) ==
  [i \in Parts |-> IF GlobMatch(StartPattern, TmpName(base_name, i - 1)) THEN NoFile ELSE disk[i]]

\* Variant: the flag is left as the last run set it.
ClearSkipped(flag) == flag

\* threading.Event.clear()
Clear(flag) == FALSE

\* _on_start: returns at once while a run is in progress; otherwise unlinks
\* the files named part_*.mp4 (the user having agreed to it; a refusal returns
\* with nothing changed), marks the run as running, clears the cancellation
\* flag and starts the worker thread.
OnStart ==
  /\ ~is_running
  /\ pc = "idle"
  /\ part' = ClearParts(part)
  /\ tmp' = ClearTmps(tmp)
  /\ is_running' = TRUE
  /\ cancel_event' = Clear(cancel_event)
  /\ pc' = "probe"
  /\ UNCHANGED <<event_queue, rpc, exc, proc, meta, launches>>
  /\ UNCHANGED enf_vars
  /\ UNCHANGED hist_vars
  /\ UNCHANGED lib_vars

\* _on_cancel: sets the cancellation flag of a running run.
OnCancel ==
  /\ is_running
  /\ ~cancel_event
  /\ cancel_event' = TRUE
  /\ cancel_at' = IF pc = "split_run" /\ proc.st = "running" THEN "segmenting"
                  ELSE IF enf = "running" THEN "enforcing"
                  ELSE IF terminal # <<>> THEN "late"
                  ELSE "other"
  /\ UNCHANGED <<is_running, event_queue, pc, rpc, exc, proc, part, tmp, meta, launches, terminal, emitted>>
  /\ UNCHANGED enf_vars
  /\ UNCHANGED lib_vars

\* Variant: any event counts as the end of the run.
HasEvent(q) == q # <<>>

\* _poll_event_queue / _handle_event: drains the queue; the done event resets
\* the running state.
HasDone(q) == \E k \in 1..Len(q) : q[k].type = "done"

PollEventQueue ==
  /\ event_queue # <<>>
  /\ event_queue' = <<>>
  /\ is_running' = IF HasDone(event_queue) THEN FALSE ELSE is_running
  /\ UNCHANGED <<cancel_event, pc, rpc, exc, proc, part, tmp, meta, launches>>
  /\ UNCHANGED enf_vars
  /\ UNCHANGED hist_vars
  /\ UNCHANGED lib_vars

\* ------------------------------------------------------ external process
Launch(kind) == [kind |-> kind, cancelled |-> cancel_event]

\* The worker is inside run_command (streaming mode) for one of these steps.
RunnerSteps == {"split_run", "enf_bitrate", "enf_crf", "extract_run", "asplit_run"}

\* The process writes one line to its combined stdout/stderr pipe.
ProcWriteLine ==
  /\ proc.st = "running"
  /\ proc.left > 0
  /\ proc' = [proc EXCEPT !.pipe = @ + 1, !.left = @ - 1]
  /\ UNCHANGED <<is_running, cancel_event, event_queue, pc, rpc, exc, part, tmp, meta, launches>>
  /\ UNCHANGED enf_vars
  /\ UNCHANGED hist_vars
  /\ UNCHANGED lib_vars

\* The process exits on its own (or in response to terminate()), with any status.
ProcExit ==
  /\ proc.st = "running"
  /\ \E rc \in {0, 1} : proc' = [proc EXCEPT !.st = "exited", !.rc = rc]
  /\ UNCHANGED <<is_running, cancel_event, event_queue, pc, rpc, exc, part, tmp, meta, launches>>
  /\ UNCHANGED enf_vars
  /\ UNCHANGED hist_vars
  /\ UNCHANGED lib_vars

\* The segmenter writes its next segment <basename>_part_NN.mp4 (-y: over a
\* file an earlier run left at that path).
NextSegment == Cardinality({i \in Parts : Exists(part[i]) /\ part[i].enc # "stale"}) + 1

ProcWriteSegment ==
  /\ proc.st = "running"
  /\ pc \in {"split_run", "asplit_run"}
  /\ NextSegment \in Parts
  /\ \E s \in Sizes : part' = [part EXCEPT ![NextSegment] = File("orig", 0, s)]
  /\ UNCHANGED <<is_running, cancel_event, event_queue, pc, rpc, exc, proc, tmp, meta, launches>>
  /\ UNCHANGED enf_vars
  /\ UNCHANGED hist_vars
  /\ UNCHANGED lib_vars

\* ----------------------------------------------- run_command (streaming)
\* subprocess.Popen(...): the process starts.
RunnerPopen ==
  /\ pc \in RunnerSteps
  /\ rpc = "popen"
  /\ proc' = [st |-> "running", rc |-> 0, pipe |-> 0, left |-> MaxLines,
              term |-> FALSE, killed |-> FALSE]
  /\ launches' = launches \cup {Launch(pc)}
  /\ rpc' = "read"
  /\ UNCHANGED <<is_running, cancel_event, event_queue, pc, exc, part, tmp, meta>>
  /\ UNCHANGED enf_vars
  /\ UNCHANGED hist_vars
  /\ UNCHANGED lib_vars

\* One iteration of `for line in proc.stdout`: log the line, then look at the
\* cancellation flag; if it is set, proc.terminate() and go wait for the exit.
RunnerReadLine ==
  /\ rpc = "read"
  /\ proc.pipe > 0
  /\ IF cancel_event
       THEN /\ proc' = [proc EXCEPT !.pipe = @ - 1, !.term = TRUE]
            /\ rpc' = "grace"
       ELSE /\ proc' = [proc EXCEPT !.pipe = @ - 1]
            /\ rpc' = "read"
  /\ UNCHANGED <<is_running, cancel_event, event_queue, pc, exc, part, tmp, meta, launches>>
  /\ UNCHANGED enf_vars
  /\ UNCHANGED hist_vars
  /\ UNCHANGED lib_vars

\* Mutant: after the grace period the exit status decides, as at the end of output.
RunnerGraceExitedByStatus ==
  /\ rpc = "grace"
  /\ proc.st = "exited"
  /\ rpc' = IF proc.rc = 0 THEN "returned" ELSE "failed"
  /\ UNCHANGED <<is_running, cancel_event, event_queue, pc, exc, proc, part, tmp, meta, launches>>
  /\ UNCHANGED enf_vars
  /\ UNCHANGED hist_vars
  /\ UNCHANGED lib_vars

\* proc.wait(timeout=5) returns: the process exited within the grace period.
RunnerGraceExited ==
  /\ rpc = "grace"
  /\ proc.st = "exited"
  /\ rpc' = "cancelled"
  /\ UNCHANGED <<is_running, cancel_event, event_queue, pc, exc, proc, part, tmp, meta, launches>>
  /\ UNCHANGED enf_vars
  /\ UNCHANGED hist_vars
  /\ UNCHANGED lib_vars

\* TimeoutExpired: the process is still running after the grace period; kill().
RunnerGraceKill ==
  /\ rpc = "grace"
  /\ proc.st = "running"
  /\ proc' = [proc EXCEPT !.st = "exited", !.rc = 1, !.killed = TRUE]
  /\ rpc' = "cancelled"
  /\ UNCHANGED <<is_running, cancel_event, event_queue, pc, exc, part, tmp, meta, launches>>
  /\ UNCHANGED enf_vars
  /\ UNCHANGED hist_vars
  /\ UNCHANGED lib_vars

\* End of output: the loop ends, proc.wait() gives the exit status; non-zero
\* raises CalledProcessError.
RunnerWait ==
  /\ rpc = "read"
  /\ proc.pipe = 0
  /\ proc.st = "exited"
  /\ rpc' = IF proc.rc = 0 THEN "returned" ELSE "failed"
  /\ UNCHANGED <<is_running, cancel_event, event_queue, pc, exc, proc, part, tmp, meta, launches>>
  /\ UNCHANGED enf_vars
  /\ UNCHANGED hist_vars
  /\ UNCHANGED lib_vars

\* ------------------------------------------------------- _run_processing
\* probe(input_path): one captured-mode ffprobe run; any failure propagates.
ProbeInput ==
  /\ pc = "probe"
  /\ launches' = launches \cup {Launch("probe_input")}
  /\ \/ /\ \E d \in {0, 1}, s \in {0, 1} : meta' = [duration |-> d, size_bytes |-> s]
        /\ pc' = "plan"
        /\ exc' = exc
     \/ /\ meta' = meta
        /\ pc' = "except"
        /\ exc' = "error"
  /\ UNCHANGED <<is_running, cancel_event, event_queue, rpc, proc, part, tmp>>
  /\ UNCHANGED enf_vars
  /\ UNCHANGED hist_vars
  /\ UNCHANGED lib_vars

\* ------------------------------------------------------------- make_plan
\* A number is an exact fraction n/d with d > 0; a float is one that Fl below
\* leaves as it is.
Rat(n, d) == [n |-> n, d |-> d]
RatOfInt(i) == Rat(i, 1)
RatMul(a, b) == Rat(a.n * b.n, a.d * b.d)
\* a / b, for b > 0
RatDiv(a, b) == Rat(a.n * b.d, a.d * b.n)
RatLeq(a, b) == a.n * b.d <= b.n * a.d
RatLess(a, b) == a.n * b.d < b.n * a.d
RatEq(a, b) == a.n * b.d = b.n * a.d
\* max(a, b) of two floats
RatMax(a, b) == IF RatLess(a, b) THEN b ELSE a
\* max(i, j) of two integers
Max(i, j) == IF i < j THEN j ELSE i

\* The bits of a float's significand (53 in the code's doubles).
MantissaBits == 13

RECURSIVE Pow2(_)
Pow2(k) == IF k = 0 THEN 1 ELSE 2 * Pow2(k - 1)

\* n/d in lowest terms, for d a power of 2.
RECURSIVE Lowest(_, _)
Lowest(n, d) == IF d > 1 /\ n % 2 = 0 THEN Lowest(n \div 2, d \div 2) ELSE Rat(n, d)

\* The float nearest to (n/d) * (down/up), for n/d > 0: the quotient is scaled
\* into 2^(MantissaBits-1) .. 2^MantissaBits and rounded to an integer, a tie
\* to the even one.
RECURSIVE FlScale(_, _, _, _)
FlScale(n, d, up, down) ==
  IF n < Pow2(MantissaBits - 1) * d THEN FlScale(2 * n, d, 2 * up, down)
  ELSE IF n >= Pow2(MantissaBits) * d THEN FlScale(n, 2 * d, up, 2 * down)
  ELSE LET q == n \div d
           r == n % d
           m == IF 2 * r > d \/ (2 * r = d /\ q % 2 = 1) THEN q + 1 ELSE q
       IN  Lowest(m * down, up)

\* The float nearest to the number v.
Round(v) ==
  IF v.n = 0 THEN Rat(0, 1)
  ELSE IF v.n > 0 THEN FlScale(v.n, v.d, 1, 1)
  ELSE LET x == FlScale(-v.n, v.d, 1, 1) IN Rat(-x.n, x.d)

\* The result of a float operation: its exact value rounded to nearest (written
\* so that the exact value is evaluated once).
Fl(a) == CHOOSE r \in {Round(v) : v \in {a}} : TRUE

\* Mutant: the quotient is truncated.
Floor(a) == a.n \div a.d

\* math.ceil
Ceil(a) == -((-a.n) \div a.d)

\* Mutant: only a negative value is rejected.
Negative(a) == a.n < 0

\* The test `value <= 0` of make_plan's four checks.
NonPositive(a) == a.n <= 0

\* utils.GB_IN_BYTES, in units of 2^28 bytes (sizes are in these units).
GB_IN_BYTES == 4

\* make_plan(duration_sec, size_bytes, max_gb, max_min): the four checks in
\* their order, then the plan.
MakePlan(duration_sec, size_bytes, max_gb, max_min) ==
  IF NonPositive(duration_sec) THEN [kind |-> "ValueError", arg |-> "duration_sec"]
  ELSE IF NonPositive(RatOfInt(size_bytes)) THEN [kind |-> "ValueError", arg |-> "size_bytes"]
  ELSE IF NonPositive(max_gb) THEN [kind |-> "ValueError", arg |-> "max_gb"]
  ELSE IF NonPositive(max_min) THEN [kind |-> "ValueError", arg |-> "max_min"]
  ELSE
    LET max_bytes == Fl(RatMul(max_gb, RatOfInt(GB_IN_BYTES)))
        max_seconds == Fl(RatMul(max_min, RatOfInt(60)))
        size_parts == IF max_bytes.n > 0
                        THEN Ceil(Fl(RatDiv(RatOfInt(size_bytes), max_bytes))) ELSE 1
        time_parts == IF max_seconds.n > 0
                        THEN Ceil(Fl(RatDiv(duration_sec, max_seconds))) ELSE 1
        parts == Max(Max(size_parts, time_parts), 1)
        segment_time == RatMax(Fl(RatDiv(duration_sec, RatOfInt(parts))), RatOfInt(1))
    IN  [kind |-> "plan", parts |-> parts, segment_time |-> segment_time]

\* The limits of the run, max_size (GB) and max_duration (minutes): _on_start
\* accepts only positive values; the model runs with 1.5 GB and 50 minutes.
max_size == Rat(3, 2)
max_duration == Rat(50, 1)

\* make_plan(duration, size_bytes, max_size, max_duration): a ValueError leaves
\* the try block.  The status event that follows only changes the display and
\* is not kept in event_queue.
PlanStep ==
  /\ pc = "plan"
  /\ IF MakePlan(RatOfInt(meta.duration), meta.size_bytes, max_size, max_duration).kind
          = "ValueError"
       THEN /\ pc' = "except"
            /\ exc' = "error"
            /\ event_queue' = event_queue
       ELSE /\ pc' = "split_enter"
            /\ exc' = exc
            /\ event_queue' = event_queue
  /\ UNCHANGED <<is_running, cancel_event, rpc, proc, part, tmp, meta, launches>>
  /\ UNCHANGED enf_vars
  /\ UNCHANGED hist_vars
  /\ UNCHANGED lib_vars

\* Mutant: the flag is not looked at.
CheckCancelSkipped == FALSE

\* _check_cancel(cancel_event)
CheckCancel == cancel_event

\* copy_split up to the run_command call.
CopySplitEnter ==
  /\ pc = "split_enter"
  /\ IF CheckCancel
       THEN /\ pc' = "except"
            /\ exc' = "cancelled"
            /\ rpc' = rpc
       ELSE /\ pc' = "split_run"
            /\ exc' = exc
            /\ rpc' = "popen"
  /\ UNCHANGED <<is_running, cancel_event, event_queue, proc, part, tmp, meta, launches>>
  /\ UNCHANGED enf_vars
  /\ UNCHANGED hist_vars
  /\ UNCHANGED lib_vars

\* The name <base>_part_NN.mp4 of segment n, from the first character that
\* differs between two segments up to the "." (46) of the suffix.
SegmentName(n) == Format02d(n) \o <<46>>

\* a < b of two strings: by character code, a proper prefix first.
RECURSIVE StrLess(_, _)
StrLess(a, b) ==
  IF b = <<>> THEN FALSE
  ELSE IF a = <<>> THEN TRUE
  ELSE IF Head(a) # Head(b) THEN Head(a) < Head(b)
  ELSE StrLess(Tail(a), Tail(b))

\* sorted(paths): the files of the listed parts (part k is segment k - 1) in
\* the order of their names.
SortedByName(paths) ==
  SortSeq(paths, LAMBDA i, j : StrLess(SegmentName(i - 1), SegmentName(j - 1)))

\* out_dir.glob("<base>_part_*.mp4"): the part paths that hold a file and match.
Globbed ==
  {i \in Parts : Exists(part[i]) /\ GlobMatch(SplitPattern(base_name), PartName(base_name, i - 1))}

\* The paths of S in the order the directory is read (any order would do: the
\* caller sorts).
RECURSIVE SortedIndices(_, _)
SortedIndices(S, k) ==
  IF k > NumParts THEN <<>>
  ELSE IF k \in S THEN <<k>> \o SortedIndices(S, k + 1)
  ELSE SortedIndices(S, k + 1)

\* created = sorted(out_dir.glob(...))
Created == SortedByName(SortedIndices(Globbed, 1))

\* copy_split after run_command, and _run_processing up to the call of
\* reencode_oversize (its progress_reset and status events only change the
\* display and are not kept in event_queue).
CopySplitAfterRun ==
  /\ pc = "split_run"
  /\ rpc \in {"returned", "failed", "cancelled"}
  /\ rpc' = "none"
  /\ proc' = NoProc
  /\ IF rpc = "returned" /\ Created # <<>>
       THEN /\ pc' = "enf_loop"
            /\ exc' = exc
            /\ files_list' = Created
            /\ index' = 1
            /\ enf' = "running"
            /\ entry_part' = part
       ELSE /\ pc' = "except"
            /\ exc' = IF rpc = "cancelled" THEN "cancelled" ELSE "error"
            /\ UNCHANGED <<files_list, index, enf, entry_part>>
  /\ UNCHANGED <<is_running, cancel_event, event_queue, part, tmp, meta, launches,
                 final_files, rung, progress, resolved, branch, oversize>>
  /\ UNCHANGED hist_vars
  /\ UNCHANGED lib_vars

\* ----------------------------------------------------- reencode_oversize
\* The part being processed, and the number of parts.
Cur == files_list[index]
Total == Len(files_list)

\* Mutant: the limit itself counts as too large.
StrictlyBelowLimit(size) == size < MaxBytes

\* size <= max_bytes
WithinLimit(size) == size <= MaxBytes

\* The result of an encode is added to the history of the part.
Attempt(result) == IF result = "oversize" THEN oversize + 1 ELSE oversize

\* Mutant: the part is put at the front of final_files.
FinishPartPrepend(disk, how) ==
  /\ final_files' = <<Cur>> \o final_files
  /\ progress' = Append(progress, <<index, Total>>)
  /\ event_queue' = event_queue
  /\ resolved' = [resolved EXCEPT ![Cur] = disk[Cur]]
  /\ branch' = how
  /\ index' = index + 1
  /\ rung' = 0
  /\ pc' = "enf_loop"

\* The end of a part's processing, in every branch: final_files.append and
\* progress_callback(index, total), then the next iteration.
FinishPart(disk, how) ==
  /\ final_files' = Append(final_files, Cur)
  /\ progress' = Append(progress, <<index, Total>>)
  /\ event_queue' = event_queue
  /\ resolved' = [resolved EXCEPT ![Cur] = disk[Cur]]
  /\ branch' = how
  /\ index' = index + 1
  /\ rung' = 0
  /\ pc' = "enf_loop"

\* An exception leaves reencode_oversize.
EnfRaise(kind, how) ==
  /\ enf' = kind
  /\ exc' = IF kind = "cancelled" THEN "cancelled" ELSE "error"
  /\ branch' = how
  /\ pc' = "except"

\* The top of the loop: the end of the list returns final_files; otherwise
\* _check_cancel(cancel_event).
EnfLoop ==
  /\ pc = "enf_loop"
  /\ IF index > Total
       THEN /\ enf' = "returned"
            /\ pc' = "outcome"
            /\ UNCHANGED <<exc, branch, oversize>>
       ELSE IF CheckCancel
       THEN /\ EnfRaise("cancelled", "cancelled")
            /\ oversize' = oversize
       ELSE /\ pc' = "enf_measure"
            /\ branch' = "none"
            /\ oversize' = 0
            /\ UNCHANGED <<enf, exc>>
  /\ UNCHANGED <<is_running, cancel_event, event_queue, rpc, proc, part, tmp, meta, launches,
                 files_list, index, final_files, rung, progress, entry_part, resolved>>
  /\ UNCHANGED hist_vars
  /\ UNCHANGED lib_vars

\* stat(): a part within the limit is accepted as it is.
EnfMeasure ==
  /\ pc = "enf_measure"
  /\ IF WithinLimit(part[Cur].size)
       THEN FinishPart(part, "within")
       ELSE /\ pc' = "enf_probe"
            /\ UNCHANGED <<event_queue, index, final_files, rung, progress, resolved, branch>>
  /\ UNCHANGED <<is_running, cancel_event, rpc, exc, proc, part, tmp, meta, launches,
                 files_list, enf, entry_part, oversize>>
  /\ UNCHANGED hist_vars
  /\ UNCHANGED lib_vars

\* probe(file_path) of an oversize part (a captured-mode ffprobe run): a failure
\* propagates; a duration <= 0 keeps the original; otherwise a stale temporary
\* file is unlinked and the bitrate-targeted encode is started (the ValueError
\* of _calculate_bitrate needs a duration <= 0 and cannot happen here).
EnfProbe ==
  /\ pc = "enf_probe"
  /\ launches' = launches \cup {Launch("probe_part")}
  /\ \/ /\ EnfRaise("failed", "probe_failed")
        /\ UNCHANGED <<event_queue, rpc, tmp, index, final_files, rung, progress, resolved>>
     \/ /\ FinishPart(part, "noduration")
        /\ UNCHANGED <<rpc, exc, tmp, enf>>
     \/ /\ tmp' = [tmp EXCEPT ![Cur] = NoFile]
        /\ pc' = "enf_bitrate"
        /\ rpc' = "popen"
        /\ UNCHANGED <<event_queue, exc, index, final_files, rung, progress, resolved, enf,
                       branch>>
  /\ UNCHANGED <<is_running, cancel_event, proc, part, meta, files_list, entry_part, oversize>>
  /\ UNCHANGED hist_vars
  /\ UNCHANGED lib_vars

\* Mutant: the encoder is given the part itself as its destination.
EncodeOverPart == "part"

\* The destination passed to _encode_with_target_bitrate and _encode_with_crf:
\* tmp_file, never file_path.
Destination == "tmp"

\* The encoder writes its output file (once) at its destination.
ProcWriteTmp ==
  /\ proc.st = "running"
  /\ pc \in {"enf_bitrate", "enf_crf"}
  /\ ~Exists(tmp[Cur])
  /\ \E s \in EncSizes :
       LET out == IF pc = "enf_bitrate" THEN File("bitrate", 0, s)
                  ELSE File("crf", CrfLadder[rung], s)
       IN  IF Destination = "tmp"
             THEN /\ tmp' = [tmp EXCEPT ![Cur] = out]
                  /\ part' = part
             ELSE /\ part' = [part EXCEPT ![Cur] = out]
                  /\ tmp' = tmp
  /\ UNCHANGED <<is_running, cancel_event, event_queue, pc, rpc, exc, proc, meta, launches>>
  /\ UNCHANGED enf_vars
  /\ UNCHANGED hist_vars
  /\ UNCHANGED lib_vars

\* except OperationCancelled around _encode_with_target_bitrate: unlink the
\* temporary file if it exists.
BitrateCancelCleanup(t) == NoFile

\* Mutant: the file that is too large is left in place.
OversizeFileKept(t) == t

\* An encode whose output is still too large: tmp_file.unlink(missing_ok=True).
OversizeFile(t) == NoFile

\* After _encode_with_target_bitrate: cancellation cleans up and re-raises;
\* CalledProcessError propagates; no temporary file keeps the original; an
\* oversize result is unlinked and the CRF ladder is entered.
EnfAfterBitrate ==
  /\ pc = "enf_bitrate"
  /\ rpc \in {"returned", "failed", "cancelled"}
  /\ rpc' = "none"
  /\ proc' = NoProc
  /\ IF rpc = "cancelled"
       THEN /\ tmp' = [tmp EXCEPT ![Cur] = BitrateCancelCleanup(@)]
            /\ oversize' = Attempt("cancelled")
            /\ EnfRaise("cancelled", "cancelled")
            /\ UNCHANGED <<event_queue, index, final_files, rung, progress, resolved>>
       ELSE IF rpc = "failed"
       THEN /\ oversize' = Attempt("failed")
            /\ EnfRaise("failed", "encode_failed")
            /\ UNCHANGED <<event_queue, tmp, index, final_files, rung, progress, resolved>>
       ELSE IF ~Exists(tmp[Cur])
       THEN /\ oversize' = Attempt("nofile")
            /\ FinishPart(part, "nofile")
            /\ UNCHANGED <<exc, tmp, enf>>
       ELSE IF ~WithinLimit(tmp[Cur].size)
       THEN /\ oversize' = Attempt("oversize")
            /\ tmp' = [tmp EXCEPT ![Cur] = OversizeFile(@)]
            /\ rung' = 1
            /\ pc' = "enf_rung_check"
            /\ UNCHANGED <<event_queue, exc, index, final_files, progress, resolved, enf,
                           branch>>
       ELSE /\ oversize' = Attempt("ok")
            /\ pc' = "enf_commit"
            /\ UNCHANGED <<event_queue, exc, tmp, index, final_files, rung, progress,
                           resolved, enf, branch>>
  /\ UNCHANGED <<is_running, cancel_event, part, meta, launches, files_list, entry_part>>
  /\ UNCHANGED hist_vars
  /\ UNCHANGED lib_vars

\* The top of `for crf in (23, 26, 28)`: _check_cancel, then _encode_with_crf.
EnfRungCheck ==
  /\ pc = "enf_rung_check"
  /\ IF CheckCancel
       THEN /\ EnfRaise("cancelled", "cancelled")
            /\ rpc' = rpc
       ELSE /\ pc' = "enf_crf"
            /\ rpc' = "popen"
            /\ UNCHANGED <<enf, exc, branch>>
  /\ UNCHANGED <<is_running, cancel_event, event_queue, proc, part, tmp, meta, launches,
                 files_list, index, final_files, rung, progress, entry_part, resolved,
                 oversize>>
  /\ UNCHANGED hist_vars
  /\ UNCHANGED lib_vars

\* Variant: the ladder goes on with the rung after the next.
SkipRung ==
  IF rung + 1 < Len(CrfLadder)
    THEN /\ rung' = rung + 2
         /\ pc' = "enf_rung_check"
    ELSE /\ rung' = rung
         /\ pc' = "enf_commit"

\* The next iteration of the ladder, or the commit after its last rung.
NextRung ==
  IF rung < Len(CrfLadder)
    THEN /\ rung' = rung + 1
         /\ pc' = "enf_rung_check"
    ELSE /\ rung' = rung
         /\ pc' = "enf_commit"

\* After _encode_with_crf: OperationCancelled and CalledProcessError both
\* propagate (nothing is caught here); no file continues with the next rung; an
\* acceptable size breaks out of the loop; a too large file is unlinked.
EnfAfterRung ==
  /\ pc = "enf_crf"
  /\ rpc \in {"returned", "failed", "cancelled"}
  /\ rpc' = "none"
  /\ proc' = NoProc
  /\ IF rpc # "returned"
       THEN /\ oversize' = Attempt(rpc)
            /\ EnfRaise(rpc, IF rpc = "cancelled" THEN "cancelled" ELSE "rung_failed")
            /\ UNCHANGED <<tmp, rung>>
       ELSE IF ~Exists(tmp[Cur])
       THEN /\ oversize' = Attempt("nofile")
            /\ NextRung
            /\ UNCHANGED <<tmp, enf, exc, branch>>
       ELSE IF WithinLimit(tmp[Cur].size)
       THEN /\ oversize' = Attempt("ok")
            /\ pc' = "enf_commit"
            /\ UNCHANGED <<tmp, rung, enf, exc, branch>>
       ELSE /\ oversize' = Attempt("oversize")
            /\ tmp' = [tmp EXCEPT ![Cur] = OversizeFile(@)]
            /\ NextRung
            /\ UNCHANGED <<enf, exc, branch>>
  /\ UNCHANGED <<is_running, cancel_event, event_queue, part, meta, launches,
                 files_list, index, final_files, progress, entry_part, resolved>>
  /\ UNCHANGED hist_vars
  /\ UNCHANGED lib_vars

\* Mutant: the part is unlinked to make room, and the rename is a later step.
ReplaceByUnlink(disk, t, i) == [disk EXCEPT ![i] = NoFile]

\* tmp_file.replace(file_path): one atomic rename over the part path.
Replace(disk, t, i) == [disk EXCEPT ![i] = t[i]]

\* The commit: if the temporary file exists it replaces the part, otherwise the
\* original stays; then final_files.append and the progress callback.
EnfCommit ==
  /\ pc = "enf_commit"
  /\ IF Exists(tmp[Cur])
       THEN /\ part' = Replace(part, tmp, Cur)
            /\ tmp' = [tmp EXCEPT ![Cur] = NoFile]
            /\ FinishPart(part', "replaced")
       ELSE /\ UNCHANGED <<part, tmp>>
            /\ FinishPart(part', "exhausted")
  /\ UNCHANGED <<is_running, cancel_event, rpc, exc, proc, meta, launches,
                 files_list, enf, entry_part, oversize>>
  /\ UNCHANGED hist_vars
  /\ UNCHANGED lib_vars

\* Variant: the flag is not looked at after reencode_oversize returned.
RunOutcomeCompleted ==
  /\ pc = "outcome"
  /\ event_queue' = Append(event_queue, [type |-> "completed", files |-> final_files])
  /\ terminal' = Append(terminal, "completed")
  /\ emitted' = Append(emitted, "completed")
  /\ pc' = "finally"
  /\ UNCHANGED <<is_running, cancel_event, rpc, exc, proc, part, tmp, meta, launches, cancel_at>>
  /\ UNCHANGED enf_vars
  /\ UNCHANGED lib_vars

\* After reencode_oversize returned: the cancelled or the completed event.
RunOutcome ==
  /\ pc = "outcome"
  /\ event_queue' = Append(event_queue,
        IF cancel_event THEN [type |-> "cancelled"]
        ELSE [type |-> "completed", files |-> final_files])
  /\ terminal' = Append(terminal, IF cancel_event THEN "cancelled" ELSE "completed")
  /\ emitted' = Append(emitted, IF cancel_event THEN "cancelled" ELSE "completed")
  /\ pc' = "finally"
  /\ UNCHANGED <<is_running, cancel_event, rpc, exc, proc, part, tmp, meta, launches, cancel_at>>
  /\ UNCHANGED enf_vars
  /\ UNCHANGED lib_vars

\* Mutant: the exception handlers put no event.
RunExceptSilent ==
  /\ pc = "except"
  /\ pc' = "finally"
  /\ UNCHANGED <<is_running, cancel_event, event_queue, rpc, exc, proc, part, tmp, meta,
                 launches>>
  /\ UNCHANGED enf_vars
  /\ UNCHANGED hist_vars
  /\ UNCHANGED lib_vars

\* except OperationCancelled / except Exception: the terminal event.
RunExcept ==
  /\ pc = "except"
  /\ event_queue' = Append(event_queue,
        [type |-> IF exc = "cancelled" THEN "cancelled" ELSE "error"])
  /\ terminal' = Append(terminal, IF exc = "cancelled" THEN "cancelled" ELSE "error")
  /\ emitted' = Append(emitted, IF exc = "cancelled" THEN "cancelled" ELSE "error")
  /\ pc' = "finally"
  /\ UNCHANGED <<is_running, cancel_event, rpc, exc, proc, part, tmp, meta, launches, cancel_at>>
  /\ UNCHANGED enf_vars
  /\ UNCHANGED lib_vars

\* Variant: the worker ends without the done event.
RunFinallySilent ==
  /\ pc = "finally"
  /\ pc' = "finished"
  /\ UNCHANGED <<is_running, cancel_event, event_queue, rpc, exc, proc, part, tmp, meta,
                 launches>>
  /\ UNCHANGED enf_vars
  /\ UNCHANGED hist_vars
  /\ UNCHANGED lib_vars

\* Mutant: the done event goes to the front of the queue.
RunFinallyFirst ==
  /\ pc = "finally"
  /\ event_queue' = <<[type |-> "done"]>> \o event_queue
  /\ emitted' = <<"done">> \o emitted
  /\ pc' = "finished"
  /\ UNCHANGED <<is_running, cancel_event, rpc, exc, proc, part, tmp, meta, launches,
                 cancel_at, terminal>>
  /\ UNCHANGED enf_vars
  /\ UNCHANGED lib_vars

\* finally: the done event; the worker thread ends.
RunFinally ==
  /\ pc = "finally"
  /\ event_queue' = Append(event_queue, [type |-> "done"])
  /\ emitted' = Append(emitted, "done")
  /\ pc' = "finished"
  /\ UNCHANGED <<is_running, cancel_event, rpc, exc, proc, part, tmp, meta, launches,
                 cancel_at, terminal>>
  /\ UNCHANGED enf_vars
  /\ UNCHANGED lib_vars

\* --------------------------------------- extract_audio, split_audio_file
\* The two audio steps are not called by _run_processing; they are modelled as
\* called directly, with a cancellation flag their caller may have set already
\* and may set at any time.
LibSteps == {"extract_enter", "extract_run", "asplit_enter", "asplit_run"}

InitSteps ==
  \/ Init
  \/ /\ pc \in {"extract_enter", "asplit_enter"}
     /\ cancel_event \in BOOLEAN
     /\ audio_tmp \in {NoFile, File("stale", 0, MaxBytes)}
     /\ call = NoCall
     /\ InitCommon

\* The caller sets the flag during the call.
CallerCancel ==
  /\ pc \in LibSteps
  /\ ~cancel_event
  /\ cancel_event' = TRUE
  /\ cancel_at' = "other"
  /\ UNCHANGED <<is_running, event_queue, pc, rpc, exc, proc, part, tmp, meta, launches, terminal, emitted>>
  /\ UNCHANGED enf_vars
  /\ UNCHANGED lib_vars

\* The call ends: it returns, or an exception reaches the caller.
LibEnd(how) ==
  /\ lib_result' = how
  /\ pc' = "lib_done"

\* extract_audio up to the run_command call: _check_cancel, then the stale
\* temporary output is unlinked.
ExtractEnter ==
  /\ pc = "extract_enter"
  /\ IF CheckCancel
       THEN /\ LibEnd("cancelled")
            /\ UNCHANGED <<rpc, audio_tmp>>
       ELSE /\ pc' = "extract_run"
            /\ rpc' = "popen"
            /\ audio_tmp' = NoFile
            /\ lib_result' = lib_result
  /\ UNCHANGED <<is_running, cancel_event, event_queue, exc, proc, part, tmp, meta, launches,
                 audio_out>>
  /\ UNCHANGED enf_vars
  /\ UNCHANGED hist_vars
  /\ UNCHANGED call_vars

\* The encoder writes the temporary mp3.
ProcWriteAudio ==
  /\ proc.st = "running"
  /\ pc = "extract_run"
  /\ ~Exists(audio_tmp)
  /\ \E s \in EncSizes : audio_tmp' = File("mp3", 0, s)
  /\ UNCHANGED <<is_running, cancel_event, event_queue, pc, rpc, exc, proc, part, tmp, meta,
                 launches, audio_out, lib_result>>
  /\ UNCHANGED enf_vars
  /\ UNCHANGED hist_vars
  /\ UNCHANGED call_vars

\* extract_audio after run_command: exceptions propagate; no temporary output
\* is a RuntimeError; otherwise it replaces output_path.
ExtractAfterRun ==
  /\ pc = "extract_run"
  /\ rpc \in {"returned", "failed", "cancelled"}
  /\ rpc' = "none"
  /\ proc' = NoProc
  /\ IF rpc = "returned" /\ Exists(audio_tmp)
       THEN /\ audio_out' = audio_tmp
            /\ audio_tmp' = NoFile
            /\ LibEnd("returned")
       ELSE /\ LibEnd(IF rpc = "cancelled" THEN "cancelled" ELSE "error")
            /\ UNCHANGED <<audio_out, audio_tmp>>
  /\ UNCHANGED <<is_running, cancel_event, event_queue, exc, part, tmp, meta, launches>>
  /\ UNCHANGED enf_vars
  /\ UNCHANGED hist_vars
  /\ UNCHANGED call_vars

\* split_audio_file up to the run_command call.
AudioSplitEnter ==
  /\ pc = "asplit_enter"
  /\ IF CheckCancel
       THEN /\ LibEnd("cancelled")
            /\ rpc' = rpc
       ELSE /\ pc' = "asplit_run"
            /\ rpc' = "popen"
            /\ lib_result' = lib_result
  /\ UNCHANGED <<is_running, cancel_event, event_queue, exc, proc, part, tmp, meta, launches,
                 audio_out, audio_tmp>>
  /\ UNCHANGED enf_vars
  /\ UNCHANGED hist_vars
  /\ UNCHANGED call_vars

\* split_audio_file after run_command: the sorted listing, a RuntimeError if
\* it is empty.
AudioSplitAfterRun ==
  /\ pc = "asplit_run"
  /\ rpc \in {"returned", "failed", "cancelled"}
  /\ rpc' = "none"
  /\ proc' = NoProc
  /\ LibEnd(IF rpc = "returned" /\ Created # <<>> THEN "returned"
            ELSE IF rpc = "cancelled" THEN "cancelled" ELSE "error")
  /\ UNCHANGED <<is_running, cancel_event, event_queue, exc, part, tmp, meta, launches,
                 audio_out, audio_tmp>>
  /\ UNCHANGED enf_vars
  /\ UNCHANGED hist_vars
  /\ UNCHANGED call_vars

Next ==
  \/ OnStart
  \/ OnCancel
  \/ PollEventQueue
  \/ ProcWriteLine
  \/ ProcExit
  \/ ProcWriteSegment
  \/ RunnerPopen
  \/ RunnerReadLine
  \/ RunnerGraceExited
  \/ RunnerGraceKill
  \/ RunnerWait
  \/ ProbeInput
  \/ PlanStep
  \/ CopySplitEnter
  \/ CopySplitAfterRun
  \/ EnfLoop
  \/ EnfMeasure
  \/ EnfProbe
  \/ ProcWriteTmp
  \/ EnfAfterBitrate
  \/ EnfRungCheck
  \/ EnfAfterRung
  \/ EnfCommit
  \/ RunOutcome
  \/ RunExcept
  \/ RunFinally

Spec == Init /\ [][Next]_vars

\* A step of the worker thread: of _run_processing, or of the run_command it
\* is in.
WorkerStep ==
  \/ RunnerPopen
  \/ RunnerReadLine
  \/ RunnerGraceExited
  \/ RunnerGraceKill
  \/ RunnerWait
  \/ ProbeInput
  \/ PlanStep
  \/ CopySplitEnter
  \/ CopySplitAfterRun
  \/ EnfLoop
  \/ EnfMeasure
  \/ EnfProbe
  \/ EnfAfterBitrate
  \/ EnfRungCheck
  \/ EnfAfterRung
  \/ EnfCommit
  \/ RunOutcome
  \/ RunExcept
  \/ RunFinally

\* The worker thread keeps running, a started process exits in the end, and
\* the application keeps polling its event queue (self.after in
\* _poll_event_queue).
Fairness ==
  /\ WF_vars(WorkerStep)
  /\ WF_vars(ProcExit)
  /\ WF_vars(PollEventQueue)

SpecLive == Init /\ [][Next]_vars /\ Fairness

\* The pipeline, or a direct call of one of the audio steps.
NextSteps ==
  \/ Next
  \/ CallerCancel
  \/ ExtractEnter
  \/ ProcWriteAudio
  \/ ExtractAfterRun
  \/ AudioSplitEnter
  \/ AudioSplitAfterRun

SpecSteps == InitSteps /\ [][NextSteps]_vars

\* ------------------------------------------------- a run after earlier runs
InputStems == {<<118>>, <<112, 97, 114, 116>>}

\* The part files an earlier run on the same input left in the output
\* directory: its segments 0 .. k-1.
StaleDirs ==
  {[i \in Parts |-> IF i <= k THEN File("stale", 0, MaxBytes) ELSE NoFile] : k \in 0..NumParts}

\* The application between two runs: no run in progress, the flag as the last
\* run left it, the output directory with that run's parts; the input is named
\* "v.mp4" or "part.mp4".
InitAgain ==
  /\ pc = "idle"
  /\ cancel_event \in BOOLEAN
  /\ cancel_at = IF cancel_event THEN "previous" ELSE "none"
  /\ base_name \in InputStems
  /\ part \in StaleDirs
  /\ audio_tmp = NoFile
  /\ call = NoCall
  /\ InitRun

SpecAgain == InitAgain /\ [][Next]_vars

\* ------------------------------------------- run_command (captured), probe
\* The bytes a prober writes to stdout: whether they are JSON and of which
\* shape (json: "invalid", "array", "object"), the raw fields of the format
\* record and of the streams, and where bytes that the encoding cannot decode
\* are (bad: "none", "in_string" inside a JSON string, "in_syntax" outside).
\* A raw field is absent, a text that is no number, or a number.
Absent == [kind |-> "absent", val |-> Rat(0, 1)]
Text == [kind |-> "text", val |-> Rat(0, 1)]
Num(n, d) == [kind |-> "num", val |-> Rat(n, d)]

\* int(x) of a float: truncation towards zero.
Trunc(a) == IF a.n >= 0 THEN a.n \div a.d ELSE -((-a.n) \div a.d)

\* _parse_float(value): the default 0.0 on TypeError / ValueError.
ParseFloat(value) == IF value.kind = "num" THEN value.val ELSE Rat(0, 1)
\* _parse_int(value): int(float(value)), the default 0 on TypeError / ValueError.
ParseInt(value) == IF value.kind = "num" THEN Trunc(value.val) ELSE 0

\* bytes.decode(encoding, errors): strict raises on bytes that cannot be
\* decoded, replace puts U+FFFD in their place.
Decode(bytes, errors) ==
  IF bytes.bad = "none" THEN [kind |-> "text", text |-> bytes, replaced |-> FALSE]
  ELSE IF errors = "strict" THEN [kind |-> "UnicodeDecodeError"]
  ELSE [kind |-> "text", text |-> bytes, replaced |-> TRUE]

\* errors="strict" if text_encoding else "replace"
DecodeErrors(text_encoding) == IF text_encoding # "None" THEN "strict" ELSE "replace"

\* run_command(..., capture_output=True): subprocess.run, the decoding of
\* stdout, then the exit status.
RunCommandCaptured(rc, stdout_bytes, text_encoding) ==
  LET decoded == Decode(stdout_bytes, DecodeErrors(text_encoding))
  IN  IF decoded.kind = "UnicodeDecodeError" THEN [kind |-> "RuntimeError", replaced |-> FALSE]
      ELSE IF rc # 0 THEN [kind |-> "CalledProcessError", replaced |-> FALSE]
      ELSE [kind |-> "text", text |-> decoded.text, replaced |-> decoded.replaced]

\* json.loads(output): U+FFFD is accepted inside a string and nowhere else.
JsonLoads(output) ==
  IF output.text.json = "invalid" \/ (output.replaced /\ output.text.bad = "in_syntax")
    THEN [kind |-> "JSONDecodeError"]
    ELSE [kind |-> output.text.json, format |-> output.text.format,
          streams |-> output.text.streams]

\* The loop over the streams: the first positive duration ends it; without one
\* the duration is the value of the last stream.
RECURSIVE StreamDuration(_, _)
StreamDuration(streams, duration) ==
  IF streams = <<>> THEN duration
  ELSE LET d == ParseFloat(Head(streams))
       IN  IF d.n > 0 THEN d ELSE StreamDuration(Tail(streams), d)

\* probe, lines 58-77: the three fields, the derived bit-rate, then the
\* per-stream fallback of the duration.
Metadata(fmt, streams) ==
  LET duration == ParseFloat(fmt.duration)
      size_bytes == ParseInt(fmt.size)
      declared == ParseInt(fmt.bit_rate)
      bit_rate == IF declared <= 0 /\ duration.n > 0 /\ size_bytes > 0
                    THEN Trunc(RatDiv(RatOfInt(size_bytes * 8), duration))
                    ELSE declared
  IN  [duration |-> IF duration.n <= 0 THEN StreamDuration(streams, duration) ELSE duration,
       size_bytes |-> size_bytes, bit_rate |-> bit_rate]

\* Mutant: the existence of the path is not looked at.
PathMissingIgnored(exists) == FALSE

\* not Path(input_path).exists()
PathMissing(exists) == ~exists

\* probe(input_path): the result, with whether the prober was started and
\* whether the text it was given had replaced characters.
Probe(exists, located, rc, stdout_bytes) ==
  IF PathMissing(exists)
    THEN [kind |-> "FileNotFoundError", started |-> FALSE, replaced |-> FALSE]
  ELSE IF ~located
    THEN [kind |-> "FileNotFoundError", started |-> FALSE, replaced |-> FALSE]
  ELSE
    LET output == RunCommandCaptured(rc, stdout_bytes, "None")
        info == JsonLoads(output)
    IN  IF output.kind # "text"
          THEN [kind |-> output.kind, started |-> TRUE, replaced |-> FALSE]
        ELSE IF info.kind = "JSONDecodeError"
          THEN [kind |-> "RuntimeError", started |-> TRUE, replaced |-> output.replaced]
        ELSE IF info.kind # "object"
          THEN [kind |-> "AttributeError", started |-> TRUE, replaced |-> output.replaced]
        ELSE [kind |-> "metadata", started |-> TRUE, replaced |-> output.replaced,
              metadata |-> Metadata(info.format, info.streams)]

\* ------------------------------------------- direct calls of the functions
\* The arguments make_plan is called with: durations (seconds), sizes (units of
\* 2^28 bytes), max_gb and max_min, each negative, zero and positive.
PlanDurations == {Rat(-1, 1), Rat(0, 1), Rat(1, 2), Rat(1, 1), Rat(4, 1), Rat(90, 1),
                  Rat(3600, 1), Rat(7201, 2)}
PlanSizes == {-1, 0, 1, 6, 18, 19}
PlanMaxGb == {Rat(-1, 1), Rat(0, 1), Rat(1, 2), Rat(3, 2), Rat(2, 1)}
PlanMaxMin == {Rat(-1, 1), Rat(0, 1), Rat(1, 128), Rat(1, 32), Rat(1, 1), Rat(50, 1)}

PlanCalls ==
  [fn : {"make_plan"}, duration_sec : PlanDurations, size_bytes : PlanSizes,
   max_gb : PlanMaxGb, max_min : PlanMaxMin]

\* What the prober may write: the raw fields of a JSON object, or an output
\* that is no JSON or no object, each with or without undecodable bytes.
RawDurations == {Absent, Text, Num(0, 1), Num(5, 2)}
RawSizes == {Absent, Num(0, 1), Num(7, 2), Num(10, 1)}
RawBitRates == {Absent, Text, Num(-1, 1), Num(0, 1), Num(500, 1)}
\* The duration fields of the streams, in their order.
StreamLists == {<<>>, <<Absent>>, <<Num(-1, 1)>>, <<Num(0, 1), Num(4, 1)>>,
                <<Text, Num(4, 1), Num(6, 1)>>}
EmptyFormat == [duration |-> Absent, size |-> Absent, bit_rate |-> Absent]
BadBytes == {"none", "in_string", "in_syntax"}

OtherStdouts ==
  [bad : BadBytes, json : {"invalid", "array"}, format : {EmptyFormat},
   streams : {<<>>}]
Stdouts ==
  [bad : BadBytes, json : {"object"},
   format : [duration : RawDurations, size : RawSizes, bit_rate : RawBitRates],
   streams : StreamLists]
    \cup OtherStdouts

ProbeCalls ==
  [fn : {"probe"}, exists : BOOLEAN, located : BOOLEAN, rc : {0, 1}, stdout : Stdouts]

\* copy_split's listing after the segmenter wrote this many segments.
CopySplitCalls == [fn : {"copy_split"}, segments : 1..MaxSegments]

\* copy_split's listing of an output directory that holds the segments
\* 0 .. segments-1 and the temporary files an aborted run left for some parts.
GlobCalls ==
  [fn : {"glob_parts"}, base : InputStems, segments : 1..NumParts,
   leftover : SUBSET (0..(NumParts - 1))]

RunCommandCalls ==
  [fn : {"run_command"}, rc : {0, 1}, stdout : OtherStdouts,
   text_encoding : {"None", "utf-8"}]

\* A function is about to be called with some arguments.
InitCalls ==
  /\ pc = "call"
  /\ cancel_event = FALSE
  /\ audio_tmp = NoFile
  /\ call \in PlanCalls \cup ProbeCalls \cup RunCommandCalls \cup CopySplitCalls \cup GlobCalls
  /\ InitCommon

\* The call of make_plan.
MakePlanCall ==
  /\ pc = "call"
  /\ call.fn = "make_plan"
  /\ ret' = MakePlan(call.duration_sec, call.size_bytes, call.max_gb, call.max_min)
  /\ pc' = "call_done"
  /\ UNCHANGED <<audio_out, audio_tmp, lib_result, call, base_name>>
  /\ UNCHANGED run_vars
  /\ UNCHANGED enf_vars
  /\ UNCHANGED hist_vars

\* The call of probe.
ProbeCall ==
  /\ pc = "call"
  /\ call.fn = "probe"
  /\ ret' = Probe(call.exists, call.located, call.rc, call.stdout)
  /\ pc' = "call_done"
  /\ UNCHANGED <<audio_out, audio_tmp, lib_result, call, base_name>>
  /\ UNCHANGED run_vars
  /\ UNCHANGED enf_vars
  /\ UNCHANGED hist_vars

\* The call of run_command(..., capture_output=True).
RunCommandCall ==
  /\ pc = "call"
  /\ call.fn = "run_command"
  /\ ret' = RunCommandCaptured(call.rc, call.stdout, call.text_encoding)
  /\ pc' = "call_done"
  /\ UNCHANGED <<audio_out, audio_tmp, lib_result, call, base_name>>
  /\ UNCHANGED run_vars
  /\ UNCHANGED enf_vars
  /\ UNCHANGED hist_vars

\* The end of copy_split (lines 61-66) after the segmenter wrote segments
\* 0 .. segments-1: the sorted listing is returned.
CopySplitListCall ==
  /\ pc = "call"
  /\ call.fn = "copy_split"
  /\ ret' = [kind |-> "list", created |-> SortedByName([k \in 1..call.segments |-> k])]
  /\ pc' = "call_done"
  /\ UNCHANGED <<audio_out, audio_tmp, lib_result, call, base_name>>
  /\ UNCHANGED run_vars
  /\ UNCHANGED enf_vars
  /\ UNCHANGED hist_vars

\* sorted() of a set of names.
RECURSIVE SortedNames(_)
SortedNames(S) ==
  IF S = {} THEN <<>>
  ELSE LET first == CHOOSE x \in S : \A y \in S \ {x} : StrLess(x, y)
       IN  <<first>> \o SortedNames(S \ {first})

\* The names in the output directory of a glob_parts call.
DirNames(c) ==
  {PartName(c.base, n) : n \in 0..(c.segments - 1)} \cup {TmpName(c.base, n) : n \in c.leftover}

\* The end of copy_split (line 61) on that directory:
\* sorted(out_dir.glob(f"{base_name}_part_*.mp4")).
CopySplitGlobCall ==
  /\ pc = "call"
  /\ call.fn = "glob_parts"
  /\ ret' = [kind |-> "list",
             created |-> SortedNames({nm \in DirNames(call) : GlobMatch(SplitPattern(call.base), nm)})]
  /\ pc' = "call_done"
  /\ UNCHANGED <<audio_out, audio_tmp, lib_result, call, base_name>>
  /\ UNCHANGED run_vars
  /\ UNCHANGED enf_vars
  /\ UNCHANGED hist_vars

\* The pipeline, or a direct call of one of the functions.
NextCalls ==
  \/ Next
  \/ MakePlanCall
  \/ ProbeCall
  \/ RunCommandCall
  \/ CopySplitListCall
  \/ CopySplitGlobCall

SpecCalls == (Init \/ InitCalls) /\ [][NextCalls]_vars

\* ------------------------------------------------------------ properties
\* The part whose processing ended last.
LastPart == files_list[index - 1]
\* The progress events of the first n parts, in order.
ProgressUpTo(n) == [k \in 1..n |-> <<k, Total>>]
\* Position k of the result holds the k-th input part, reported by one event.
InResult(k) == k <= Len(final_files) /\ final_files[k] = files_list[k]
Reported(k) == Cardinality({j \in 1..Len(progress) : progress[j] = <<k, Total>>}) = 1
\* Every encode of the part (the bitrate-targeted one and each rung) came out
\* too large.
AllOversize == oversize = 1 + Len(CrfLadder)
EncoderKinds == {"probe_part", "enf_bitrate", "enf_crf"}

\* C1 (as claimed): after a failed bitrate-targeted encode (a non-zero exit, or no
\* temporary file) reencode_oversize goes on normally: the part is in the
\* result, its file is the original, and its progress event was emitted.
C1_EncodeFailureIsSoft ==
  /\ branch = "encode_failed" =>
       /\ enf # "failed"
       /\ InResult(index) /\ Reported(index)
       /\ part[Cur] = entry_part[Cur]
  /\ branch = "nofile" =>
       /\ enf \in {"running", "returned"}
       /\ InResult(index - 1) /\ Reported(index - 1)
       /\ part[LastPart] = entry_part[LastPart]

C3_PartPathAlwaysExists ==
  /\ [](enf # "notcalled" => \A k \in 1..Total : Exists(part[files_list[k]]))
  /\ [][\A i \in Parts :
          (enf = "running" /\ part'[i] # part[i]) =>
             (Exists(tmp[i]) /\ part'[i] = tmp[i] /\ ~Exists(tmp'[i]))]_vars

\* C3 witness: a part was replaced by its bitrate-targeted encode.
C3_Witness ==
  /\ enf = "running"
  /\ \E k \in 1..Total : part[files_list[k]].enc = "bitrate"

\* C4 (as claimed): the progress events are exactly those of the parts whose
\* processing has ended, a failed bitrate-targeted encode included, one each,
\* in order.
C4_ProgressOncePerPart ==
  enf # "notcalled" =>
    progress = ProgressUpTo(IF branch = "encode_failed" THEN index ELSE index - 1)

\* C5: when reencode_oversize returns, final_files is the input list.
C5_ReturnsInputsInOrder == enf = "returned" => final_files = files_list

\* C5 witness: a full list returned, its first part kept and its last part
\* replaced by a CRF rung.
C5_Witness ==
  /\ enf = "returned"
  /\ Total = NumParts
  /\ part[files_list[1]].enc = "orig"
  /\ part[files_list[Total]].enc = "crf"

\* C6: on parts that are all within the limit, reencode_oversize starts no
\* prober or transcoder, leaves every part and temporary path as it was, and
\* returns the input list after one progress event per part, 1..N.
AllCompliant == \A k \in 1..Total : entry_part[files_list[k]].size <= MaxBytes

C6_CompliantPartsUntouched ==
  (enf # "notcalled" /\ AllCompliant) =>
     /\ part = entry_part
     /\ \A i \in Parts : ~Exists(tmp[i])
     /\ \A l \in launches : l.kind \notin EncoderKinds
     /\ progress = ProgressUpTo(index - 1)
     /\ enf = "returned" => (final_files = files_list /\ progress = ProgressUpTo(Total))

\* C6 witness: a full list of compliant parts returned, one exactly at the limit.
C6_Witness ==
  /\ enf = "returned"
  /\ AllCompliant
  /\ Total = NumParts
  /\ \E k \in 1..Total : part[files_list[k]].size = MaxBytes

\* C7 (as claimed): when the flag is set while the segmenter is running,
\* run_command ends by terminating it and raising OperationCancelled, and the
\* run's terminal event is cancelled.
C7_MidStreamCancelStopsSegmenter ==
  /\ (cancel_at = "segmenting" /\ pc = "split_run" /\ rpc \in {"returned", "failed", "cancelled"})
        => (rpc = "cancelled" /\ proc.st = "exited")
  /\ (cancel_at = "segmenting" /\ terminal # <<>>) => terminal = <<"cancelled">>

\* C8: a step entered with the flag set raises OperationCancelled without
\* starting a process or touching a file, and the terminal event of a run
\* that raised OperationCancelled is cancelled.
StepEntry ==
  \/ pc \in {"split_enter", "extract_enter", "asplit_enter"}
  \/ pc = "enf_loop" /\ index = 1

C8_CancelAtEntryStopsStep ==
  /\ [][(cancel_event /\ StepEntry /\ pc' # pc) =>
          /\ \/ pc' = "except" /\ exc' = "cancelled"
             \/ pc' = "lib_done" /\ lib_result' = "cancelled"
          /\ part' = part /\ tmp' = tmp
          /\ audio_out' = audio_out /\ audio_tmp' = audio_tmp
          /\ proc' = proc /\ launches' = launches]_vars
  /\ []((exc = "cancelled" /\ terminal # <<>>) => terminal = <<"cancelled">>)

\* C8 witness: a run ended as cancelled at the entry of copy_split: no
\* segmenter was started and no part was written.
C8_Witness ==
  /\ terminal = <<"cancelled">>
  /\ \A l \in launches : l.kind = "probe_input"
  /\ \A i \in Parts : ~Exists(part[i])

\* C9 (as claimed): when reencode_oversize ends with OperationCancelled, the
\* temporary file of the part in flight does not exist.
C9_NoTempAfterCancel == enf = "cancelled" => ~Exists(tmp[Cur])

\* C10: when reencode_oversize ends with OperationCancelled at part i, the
\* parts before i are as their processing left them, part i and the parts
\* after it are as they were on entry, and no part changes afterwards.
C10_CancelLeavesPartsAsCommitted ==
  /\ [](enf = "cancelled" =>
          \A k \in 1..Total :
             part[files_list[k]] = IF k < index THEN resolved[files_list[k]]
                                   ELSE entry_part[files_list[k]])
  /\ [][enf = "cancelled" => part' = part]_vars

\* C10 witness: cancelled in the CRF ladder of the second part, after the first
\* part was replaced by a CRF rung.
C10_Witness ==
  /\ enf = "cancelled"
  /\ index = 2
  /\ part[files_list[1]].enc = "crf"
  /\ oversize > 0

\* C11 (as claimed): a non-zero exit of the transcoder in the bitrate-targeted
\* encode or in a CRF rung does not end reencode_oversize with an exception,
\* and the terminal event of such a run is never the error event.
C11_EncoderExitNeverFailsRun ==
  branch \in {"encode_failed", "rung_failed"} =>
     /\ enf # "failed"
     /\ exc # "error"
     /\ \A k \in 1..Len(terminal) : terminal[k] # "error"

\* C12: run_command (streaming) leaves its read loop for the grace period only
\* after reading a line with the flag set, and then it has requested
\* termination and not killed; it leaves the grace period only as cancelled,
\* with the process exited, having killed it exactly when it was still running
\* (an exit status the process already had, 0 included, changes nothing); the
\* caller then sees OperationCancelled; a kill never comes without the
\* termination request, and after that request the call never returns
\* normally or with CalledProcessError.
C12_ObservedCancelEndsCancelled ==
  /\ [][(rpc # "grace" /\ rpc' = "grace") =>
          /\ rpc = "read" /\ cancel_event /\ proc.pipe > 0
          /\ proc'.term /\ ~proc'.killed
          /\ proc'.st = proc.st /\ proc'.rc = proc.rc]_vars
  /\ [][(rpc = "grace" /\ rpc' # "grace") =>
          /\ rpc' = "cancelled"
          /\ proc'.st = "exited"
          /\ proc'.killed <=> proc.st = "running"
          /\ proc.st = "exited" => proc'.rc = proc.rc]_vars
  /\ [][(rpc = "cancelled" /\ rpc' # "cancelled") => exc' = "cancelled"]_vars
  /\ [](proc.killed => proc.term)
  /\ [](proc.term => rpc \in {"grace", "cancelled"})

\* C12 witness: run_command raised OperationCancelled for a process that was
\* asked to terminate, was not killed, and exited with status 0.
C12_Witness ==
  /\ rpc = "cancelled"
  /\ proc.term /\ ~proc.killed
  /\ proc.st = "exited" /\ proc.rc = 0

\* The terminal event types, and the number of events of given types put so far.
TerminalTypes == {"completed", "cancelled", "error"}
Emitted(types) == Cardinality({k \in 1..Len(emitted) : emitted[k] \in types})

\* C13: a run never puts two terminal events or two done events, its done
\* event is never put without a terminal event, and when the worker has
\* ended it has put exactly one of each.
C13_OneTerminalOneDone ==
  /\ Emitted(TerminalTypes) <= 1
  /\ Emitted({"done"}) <= Emitted(TerminalTypes)
  /\ pc = "finished" => (Emitted(TerminalTypes) = 1 /\ Emitted({"done"}) = 1)

\* C13 witness: the worker ended after a failure inside reencode_oversize.
C13_Witness ==
  /\ pc = "finished"
  /\ enf = "failed"
  /\ Emitted({"error"}) = 1

\* C14 (as claimed): every terminal event put on the queue has the done event
\* before it.
C14_DonePrecedesTerminal ==
  \A k \in 1..Len(emitted) :
     emitted[k] \in TerminalTypes => \E j \in 1..(k - 1) : emitted[j] = "done"

\* C14 (amended): the done event is the last event of a run: it is put right
\* after the run's terminal event, nothing is put after it, and in the queue
\* it is never in front of a terminal event.
C14_TerminalPrecedesDone ==
  /\ \A k \in 1..Len(emitted) :
        emitted[k] = "done" =>
           /\ k = Len(emitted)
           /\ k > 1 /\ emitted[k - 1] \in TerminalTypes
  /\ \A k \in 1..Len(event_queue) :
        event_queue[k].type = "done" => k = Len(event_queue)

\* C14 witness: the worker ended a completed run, and both of its events are
\* still in the queue.
C14_Witness ==
  /\ pc = "finished"
  /\ emitted = <<"completed", "done">>
  /\ Len(event_queue) = 2

\* make_plan was called, and with four positive arguments.
PlanCalled == call.fn = "make_plan" /\ ret # NoRet
PlanAllPositive ==
  /\ call.duration_sec.n > 0 /\ call.size_bytes > 0
  /\ call.max_gb.n > 0 /\ call.max_min.n > 0
\* q is at least the two quotients size/(maxGB*2^30) and duration/(maxMinutes*60),
\* each product and quotient being a float.
PlanCovers(q) ==
  /\ RatLeq(Fl(RatDiv(RatOfInt(call.size_bytes), Fl(RatMul(call.max_gb, RatOfInt(GB_IN_BYTES))))),
            RatOfInt(q))
  /\ RatLeq(Fl(RatDiv(call.duration_sec, Fl(RatMul(call.max_min, RatOfInt(60))))), RatOfInt(q))
\* The example of the specification: 3600 s, 4.5 GiB, 1.5 GB, 50 minutes.
PlanExample ==
  [fn |-> "make_plan", duration_sec |-> Rat(3600, 1), size_bytes |-> 18,
   max_gb |-> Rat(3, 2), max_min |-> Rat(50, 1)]

\* C15: for positive arguments make_plan returns a plan whose parts is the
\* least integer >= 1 that is >= size/(maxGB*2^30) and >= duration/(maxMinutes*60),
\* the quotients being those of float arithmetic
\* (the maximum of the two ceilings and 1), and whose segment_time is the
\* float quotient duration/parts when parts <= duration and 1 otherwise; the
\* example gives 3 parts of 1200 seconds.
C15_PlanIsMaxOfCeilings ==
  /\ (PlanCalled /\ PlanAllPositive) =>
        /\ ret.kind = "plan"
        /\ ret.parts >= 1
        /\ PlanCovers(ret.parts)
        /\ ret.parts > 1 => ~PlanCovers(ret.parts - 1)
        /\ RatLeq(RatOfInt(1), ret.segment_time)
        /\ IF RatLeq(RatOfInt(ret.parts), call.duration_sec)
             THEN RatEq(ret.segment_time, Fl(RatDiv(call.duration_sec, RatOfInt(ret.parts))))
             ELSE RatEq(ret.segment_time, RatOfInt(1))
  /\ (PlanCalled /\ call = PlanExample) =>
        (ret.parts = 3 /\ RatEq(ret.segment_time, RatOfInt(1200)))

\* C15 witness: make_plan returned the plan of the example.
C15_Witness ==
  /\ PlanCalled
  /\ call = PlanExample
  /\ ret.kind = "plan" /\ ret.parts = 3

\* C16: make_plan raises ValueError, and returns no plan, whenever one of its
\* four arguments is <= 0.  In the pipeline the step that raises it goes to the
\* exception handler without starting a process or writing a part; no part
\* exists unless the segmenter was started; and once the handler is reached
\* nothing is started or written.
C16_NonPositiveArgumentRejected ==
  /\ [](PlanCalled /\ ~PlanAllPositive => ret.kind = "ValueError")
  /\ [][(pc = "plan" /\ pc' # pc /\ (meta.duration <= 0 \/ meta.size_bytes <= 0)) =>
          /\ pc' = "except" /\ exc' = "error"
          /\ launches' = launches /\ part' = part /\ proc' = proc]_vars
  /\ []((\A l \in launches : l.kind # "split_run") => \A i \in Parts : ~Exists(part[i]))
  /\ [][(pc \in {"except", "finally", "finished"}) =>
          /\ launches' = launches
          /\ part' = part /\ proc' = proc]_vars

\* C16 witness: make_plan raised ValueError for a non-positive max_min, its
\* other three arguments being positive.
C16_Witness ==
  /\ PlanCalled
  /\ call.duration_sec.n > 0 /\ call.size_bytes > 0 /\ call.max_gb.n > 0
  /\ call.max_min.n <= 0
  /\ ret.kind = "ValueError"

\* probe was called; the failures it can end with; an output that is the
\* JSON object probe expects, whatever the decoding does to its strings.
ProbeCalled == call.fn = "probe" /\ ret # NoRet
ProbeFailures == {"FileNotFoundError", "CalledProcessError", "RuntimeError", "AttributeError"}
Parseable(bytes) == bytes.json = "object" /\ bytes.bad # "in_syntax"

\* C17: probe of a missing path raises FileNotFoundError without starting the
\* prober; a started prober that exits non-zero, or whose output is no JSON
\* object, makes probe fail; metadata is returned only for an existing path and
\* a prober that exited 0 with a parseable output, and never with a failure.
C17_ProbeFailsOrReturnsMetadata ==
  ProbeCalled =>
    /\ ~call.exists => (ret.kind = "FileNotFoundError" /\ ~ret.started)
    /\ (ret.started /\ call.rc # 0) => ret.kind \in {"CalledProcessError", "RuntimeError"}
    /\ (ret.started /\ ~Parseable(call.stdout)) => ret.kind \in ProbeFailures
    /\ ret.kind \in ProbeFailures \cup {"metadata"}
    /\ ret.kind \in ProbeFailures <=> "metadata" \notin DOMAIN ret
    /\ ret.kind = "metadata" =>
         /\ call.exists /\ ret.started
         /\ call.rc = 0 /\ Parseable(call.stdout)

\* C17 witness: the prober exited 0 with an output that is no JSON, and probe
\* raised.
C17_Witness ==
  /\ ProbeCalled
  /\ call.exists /\ call.rc = 0 /\ call.stdout.json = "invalid"
  /\ ret.started /\ ret.kind = "RuntimeError"

\* C18 (as claimed): metadata with a positive duration and size, for a
\* declared bit-rate <= 0, has the bit-rate int(size*8/duration).
C18_BitRateDerivedWhenKnown ==
  (/\ ProbeCalled /\ ret.kind = "metadata"
   /\ ParseInt(call.stdout.format.bit_rate) <= 0
   /\ ret.metadata.duration.n > 0 /\ ret.metadata.size_bytes > 0) =>
     ret.metadata.bit_rate =
        Trunc(RatDiv(RatOfInt(ret.metadata.size_bytes * 8), ret.metadata.duration))

\* C19 (as claimed): run_command in captured mode, called without text_encoding
\* as probe calls it, raises on stdout bytes that cannot be decoded; no text
\* and no metadata comes from replaced characters.
C19_UndecodableOutputFails ==
  /\ (/\ call.fn = "run_command" /\ ret # NoRet
      /\ call.text_encoding = "None" /\ call.stdout.bad # "none") =>
        ret.kind = "RuntimeError"
  /\ (call.fn \in {"run_command", "probe"} /\ ret # NoRet) => ~ret.replaced

\* C20 (as claimed): whatever the number of segments, the list copy_split
\* returns has the segments in the order of their indices.
C20_ListingInSegmentOrder ==
  (call.fn = "copy_split" /\ ret # NoRet) =>
     ret.created = [k \in 1..call.segments |-> k]

\* C21: every path copy_split returns holds a file this run's segmenter wrote:
\* the files an earlier run left under <basename>_part_NN.mp4 were cleared by
\* _on_start before segmentation. Fails: _on_start clears part_*.mp4 only.
C21_ReturnedPartsWrittenByThisRun ==
  enf # "notcalled" =>
    \A k \in 1..Len(files_list) : entry_part[files_list[k]].enc # "stale"

\* C22: while a run is in progress (from the start of its worker until its done
\* event is handled) the flag is never cleared, so it goes from unset to set at
\* most once and a request is not lost; it is cleared only by the start of a
\* run, in the step that creates the worker, so every worker starts with the
\* flag unset whatever the run before left.
C22_FlagClearedOnlyAtStart ==
  /\ [][is_running /\ cancel_event => cancel_event']_vars
  /\ [][(cancel_event /\ ~cancel_event') =>
          (~is_running /\ pc = "idle" /\ is_running' /\ pc' = "probe")]_vars
  /\ [][(pc = "idle" /\ pc' # "idle") => ~cancel_event']_vars
  /\ [](pc = "idle" => launches = {})

\* A run was started with the flag still set by the run before: its worker is
\* at its first step and the flag is unset.
C22_Witness ==
  /\ cancel_at = "previous"
  /\ is_running
  /\ pc = "probe"
  /\ ~cancel_event

\* C23: no external process (segmenter, per-part probe, bitrate-targeted
\* encode, CRF rung) is started once the cancellation flag is set. Fails: the
\* flag is read at a few points only, and not between the per-part probe and
\* the bitrate-targeted encode.
C23_NoLaunchAfterCancel ==
  \A l \in launches : l.kind # "probe_input" => ~l.cancelled

\* C24: the CRF ladder is entered only after a bitrate-targeted encode whose
\* file is larger than the limit; its rungs are CRF 23, 26, 28 in that order;
\* every rung starts with no temporary file on disk (the too large output of the
\* attempt before is gone) and with the splitter's original at the part path;
\* the first rung whose file is within the limit ends the ladder, and that file
\* is the one committed.
C24_LadderInOrderFirstFitCommitted ==
  /\ CrfLadder = <<23, 26, 28>>
  /\ [][(rung = 0 /\ rung' # 0) =>
          /\ pc = "enf_bitrate" /\ rpc = "returned" /\ rung' = 1
          /\ tmp[Cur].enc = "bitrate" /\ ~WithinLimit(tmp[Cur].size)]_vars
  /\ [][rung' # rung => (rung' = 0 \/ rung' = rung + 1)]_vars
  /\ [](pc \in {"enf_rung_check", "enf_crf"} => rung \in 1..Len(CrfLadder))
  /\ []((pc = "enf_crf" /\ rpc = "popen") =>
          (~Exists(tmp[Cur]) /\ part[Cur] = entry_part[Cur]))
  /\ []((pc = "enf_crf" /\ Exists(tmp[Cur])) =>
          (tmp[Cur].enc = "crf" /\ tmp[Cur].crf = CrfLadder[rung]))
  /\ [][(pc = "enf_crf" /\ pc' # pc /\ rpc = "returned" /\ Exists(tmp[Cur])
          /\ WithinLimit(tmp[Cur].size)) =>
          (pc' = "enf_commit" /\ rung' = rung /\ tmp' = tmp)]_vars
  /\ [][(pc = "enf_commit" /\ pc' # pc /\ Exists(tmp[Cur])) =>
          (part'[Cur] = tmp[Cur] /\ WithinLimit(tmp[Cur].size))]_vars

\* The bitrate-targeted file and the CRF 23 file of a part were too large and
\* were removed, and the CRF 26 file replaced the part.
C24_Witness ==
  /\ pc = "enf_loop"
  /\ branch = "replaced"
  /\ oversize = 2
  /\ part[LastPart] = resolved[LastPart]
  /\ part[LastPart].enc = "crf"
  /\ part[LastPart].crf = 26
  /\ WithinLimit(part[LastPart].size)

\* C25: reencode_oversize changes a part path only by committing an encode
\* whose file is within the limit: at every moment each part is within the
\* limit or is the very file the splitter produced, and no part is ever larger
\* than the splitter's file.
C25_ReplacedOnlyByCompliantEncode ==
  /\ [](enf # "notcalled" =>
          \A i \in Parts : WithinLimit(part[i].size) \/ part[i] = entry_part[i])
  /\ [](enf # "notcalled" => \A i \in Parts : part[i].size <= entry_part[i].size)
  /\ [][\A i \in Parts : (enf = "running" /\ part'[i] # part[i]) =>
          /\ pc = "enf_commit" /\ i = Cur
          /\ part'[i] = tmp[i]
          /\ tmp[i].enc \in {"bitrate", "crf"}
          /\ WithinLimit(part'[i].size)]_vars

\* An oversize part was replaced by its bitrate-targeted encode, which is
\* within the limit.
C25_Witness ==
  /\ pc = "enf_loop"
  /\ branch = "replaced"
  /\ ~WithinLimit(entry_part[LastPart].size)
  /\ part[LastPart].enc = "bitrate"
  /\ WithinLimit(part[LastPart].size)
  /\ part[LastPart].size < entry_part[LastPart].size

\* C26: the temporary file of a part, <part stem>.tmp.mp4, is never among the
\* paths copy_split lists, so a temporary file an aborted run left behind is
\* not returned as a part by a later run. Fails: "<base>_part_NN.tmp.mp4"
\* matches "<base>_part_*.mp4".
C26_TmpNameNeverListed ==
  (call.fn = "glob_parts" /\ ret # NoRet) =>
    \A n \in call.leftover :
      \A k \in 1..Len(ret.created) : ret.created[k] # TmpName(call.base, n)

\* C30: for positive arguments the plan covers the input, parts * segment_time
\* >= duration, and whenever maxMinutes*60 >= 1 segment_time <= maxMinutes*60.
\* Fails: duration/parts is rounded to a float, which can be below the quotient.
C30_PlanCoversWithinLimit ==
  (PlanCalled /\ PlanAllPositive) =>
    /\ ret.kind = "plan"
    /\ RatLeq(call.duration_sec, RatMul(RatOfInt(ret.parts), ret.segment_time))
    /\ RatLeq(RatOfInt(1), RatMul(call.max_min, RatOfInt(60))) =>
         RatLeq(ret.segment_time, RatMul(call.max_min, RatOfInt(60)))

\* C27: at most one worker executes at a time. Whenever the application is not
\* running (the only state in which _on_start goes on) no worker is executing;
\* a worker is started only by a start request accepted in that state, which
\* sets the running state; the running state is reset only by handling a done
\* event, and the done event is put by the worker as its last action.
C27_OneWorkerAtATime ==
  /\ [](~is_running => pc \in {"idle", "finished"})
  /\ [][(pc = "idle" /\ pc' # "idle") => (~is_running /\ is_running' /\ pc' = "probe")]_vars
  /\ [][pc' = "probe" => pc \in {"idle", "probe"}]_vars
  /\ [][(is_running /\ ~is_running') => (pc = "finished" /\ HasDone(event_queue))]_vars
  /\ [][(~HasDone(event_queue) /\ HasDone(event_queue')) => pc' = "finished"]_vars

\* The worker has put done and ended while the application still counts as
\* running: a start request is ignored until the done event is handled.
C27_Witness ==
  /\ is_running
  /\ pc = "finished"
  /\ HasDone(event_queue)

\* C29: a run whose flag was set before its terminal event was put, and so at
\* any time before reencode_oversize returned, never reports completed: the
\* flag is read once more after reencode_oversize returned, and a flag that is
\* set there gives the cancelled event whatever was processed.
C29_CancelBeforeReturnNeverCompleted ==
  /\ []((\E k \in 1..Len(terminal) : terminal[k] = "completed") =>
          cancel_at \in {"none", "late"})
  /\ [][(pc = "outcome" /\ pc' # pc /\ cancel_event) => terminal' = <<"cancelled">>]_vars
  /\ [][(is_running /\ cancel_event) => cancel_event']_vars

\* The flag was set inside reencode_oversize after its last check: every part
\* was processed and reported, reencode_oversize returned the whole list, and
\* the run reported cancelled.
C29_Witness ==
  /\ cancel_at = "enforcing"
  /\ enf = "returned"
  /\ final_files = files_list
  /\ progress = ProgressUpTo(Total)
  /\ terminal = <<"cancelled">>

\* C28: if the worker keeps running, every started process exits and the
\* application keeps polling, then every started run puts its done event, after
\* which the worker has ended, and the running state is reset: it is never
\* left at running.
C28_RunEndsAndRunningIsReset ==
  /\ (pc = "probe") ~> (pc = "finished" /\ Emitted({"done"}) = 1)
  /\ is_running ~> ~is_running

\* A run that failed has ended and the running state is reset.
C28_Witness ==
  /\ ~is_running
  /\ pc = "finished"
  /\ terminal = <<"error">>
  /\ emitted = <<"error", "done">>
  /\ event_queue = <<>>

====
